---- MODULE Spec2Model ----
(***************************************************************************)
(* A model of the host-side triSYCL dispatch engine and buffer model.      *)
(*                                                                         *)
(*   src/unnamed/part_000     RangeImpl, IdImpl, NDRangeImpl, BufferImpl,   *)
(*                            AccessorImpl, ParallelForIterate,            *)
(*                            ParallelOpenMPForIterate                     *)
(*   src/include/CL/sycl.hpp  nd_range, item, nd_item, group, buffer,      *)
(*                            parallel_for, parallel_for_workgroup,        *)
(*                            parallel_for_workitem                        *)
(*                                                                         *)
(* Specifications: Spec (flat dispatch), SpecHier (work-groups and         *)
(* work-items), SpecOp (operator /), SpecCoord (RangeImpl constructors),   *)
(* SpecBuf (buffers and accessors), SpecAcc (element access), SpecLife     *)
(* (buffer destruction), SpecKernel (a dispatch that writes a buffer),     *)
(* SpecOff (dispatch with an offset), SpecFail (a kernel that throws),     *)
(* SpecView (several accessors of one buffer), SpecCopy (the copy          *)
(* constructor), SpecScribble (a callback that overwrites its index).      *)
(*                                                                         *)
(* Dimensions are numbered 1..rank here (0..rank-1 in the source).         *)
(***************************************************************************)
EXTENDS Integers, Sequences, FiniteSets, TLC

(***************************************************************************)
(* Program constants and bounds of the model.                              *)
(***************************************************************************)
\* static_assert(1 <= Dimensions && Dimensions <= 3)
MaxRank == 3
\* largest component of an extent given to a flat dispatch
MaxExtent == 2
\* number of threads of the OpenMP team
NumWorkers == 2

\* largest component of the global and local range and of the offset of an
\* nd_range given to the hierarchical dispatch
MaxGlobal == 4
MaxLocal == 2
MaxOffset == 1
\* std::intptr_t, scaled down to IntBits bits (two's complement)
IntBits == 5
\* largest small operand of the elementwise operations; IntMax - 1 and IntMax
\* are operands too
MaxOperand == 2

\* number of BufferImpl and of AccessorImpl objects, number of elements of a
\* buffer and of the caller's array, largest element value
MaxBuffers == 2
MaxViews == 2
MaxElems == 2
MaxValue == 1
\* largest extent of the one-dimensional dispatch of a kernel that writes
MaxLength == 4
\* number of RangeImpl objects constructed
MaxCoords == 2
\* number of element writes followed when buffers are copied
MaxWrites == 1

Ranks == 1..MaxRank
\* the ranks the hierarchical dispatch is run for
HierRanks == {1, 2}
Workers == 1..NumWorkers

VARIABLES
  r,        \* flat dispatch: the Range given to the launcher
  variant,  \* "none", "seq" (ParallelForIterate) or "omp" (ParallelOpenMPForIterate)
  pc,       \* the calling thread: "idle", "running", "returned"
  sched,    \* omp for: the worker each iteration of the outermost loop is given to
  it,       \* per worker: the state of its (recursive) iterator
  calls,    \* per worker: the indices f has been invoked with, in order
  ndr,      \* hierarchical dispatch: the nd_range given to parallel_for_workgroup
  hpc,      \* hierarchical dispatch: "idle", "groups", "items", "returned"
  grp,      \* the iterator of the group pass; its index is the Id of the group g
  itm,      \* the iterator of the item pass; its index is the local id
  gcalls,   \* the group ids the group callback has been invoked with, in order
  icalls,   \* the work-items the item callback has been invoked with, in order,
            \* each with the number of the group callback that ran its item pass
  dividend, \* operands and result of an elementwise operation on two ranges
  divisor,
  result,
  heap,     \* the element storage: the caller's arrays and the allocations
  bufs,     \* the BufferImpl objects constructed so far
  views,    \* the AccessorImpl objects constructed so far
  lastWrite, \* the last element write through a view: the view, the id, the value
  offs,     \* flat dispatch with an offset: the id offset given to the launcher
  fault,    \* an assertion has failed and the program is aborted
  lastRead, \* the last element read through a view: the view, the id, the value
  gone,     \* the BufferImpl objects that have been destroyed
  freed,    \* the storage blocks released so far, in order
  dims,     \* the template parameter Dimensions of the ranges constructed
  coords,   \* the RangeImpl<dims> objects constructed so far
  scribble  \* what f assigns to each component of the index it is given
            \* (-1: it leaves the component alone)

flatVars == <<r, variant, pc, sched, it, calls>>
hierVars == <<ndr, hpc, grp, itm, gcalls, icalls>>
opVars == <<dividend, divisor, result>>
bufVars == <<heap, bufs, views, lastWrite>>
auxVars == <<offs, fault, lastRead, gone, freed, dims, coords, scribble>>
vars == <<flatVars, hierVars, opVars, bufVars, auxVars>>

(***************************************************************************)
(* RangeImpl / IdImpl: a vector of Dimensions signed integers.             *)
(***************************************************************************)
\* RangeImpl() : vector(Dimensions) {}  --  Dimensions zeros
DefaultId(n) == [d \in 1..n |-> 0]

RECURSIVE ProductFrom(_, _)
ProductFrom(v, d) == IF d > Len(v) THEN 1 ELSE v[d] * ProductFrom(v, d + 1)
Product(v) == ProductFrom(v, 1)

\* the index space  prod_d [0, v[d])
MaxOf(v) == CHOOSE m \in {0} \cup {v[d] : d \in 1..Len(v)} :
             \A d \in 1..Len(v) : v[d] <= m
Box(v) == { c \in [1..Len(v) -> 0..MaxOf(v)] : \A d \in 1..Len(v) : c[d] < v[d] }

IntMax == 2 ^ (IntBits - 1) - 1
IntMin == -(2 ^ (IntBits - 1))
IntRange == IntMin..IntMax

\* the values a signed computation of std::intptr_t can leave for the
\* mathematical value x: x itself when it is representable, and otherwise
\* (signed overflow, undefined behaviour) any value
Signed(x) == IF x \in IntRange THEN {x} ELSE IntRange

\* the division of C++ on integers, which truncates towards zero (y # 0)
Quot(x, y) ==
  LET q == (IF x < 0 THEN -x ELSE x) \div (IF y < 0 THEN -y ELSE y)
  IN  IF (x < 0) = (y < 0) THEN q ELSE -q

\* a division that rounds towards zero
DivComponentDown(a, b) == Signed(Quot(a, b))

\* (dividend[i] + divisor[i] - 1)/divisor[i], evaluated from left to right
DivComponent(a, b) ==
  UNION { UNION { Signed(Quot(t, b)) : t \in Signed(s - 1) } : s \in Signed(a + b) }

\* operator /: an element-wise division of ranges, with upper rounding; the
\* set of the results the build can produce
RECURSIVE DivUpTo(_, _, _)
DivUpTo(a, b, n) ==
  IF n = 0 THEN {<<>>}
  ELSE { Append(q, x) : q \in DivUpTo(a, b, n - 1), x \in DivComponent(a[n], b[n]) }
OpDiv(a, b) == DivUpTo(a, b, Len(a))

\* a multiplication by the first component of b in every dimension
OpMulFirst(a, b) == [d \in 1..Len(a) |-> a[d] * b[1]]

\* operator *: an element-wise multiplication of ranges
OpMul(a, b) == [d \in 1..Len(a) |-> a[d] * b[d]]

\* operator +: an element-wise addition of ranges
OpAdd(a, b) == [d \in 1..Len(a) |-> a[d] + b[d]]

(***************************************************************************)
(* nd_range, group and nd_item.                                            *)
(***************************************************************************)
\* nd_range(global_size, local_size, offset)
NdRange(global, local, offset) ==
  [GlobalRange |-> global, LocalRange |-> local, Offset |-> offset]

\* nd_range::get_group_range(): GlobalRange/LocalRange
GetGroupRange(n) == OpDiv(n.GlobalRange, n.LocalRange)

\* group(ndr, i) and its accessors
Group(n, i) == [NDR |-> n, Id |-> i]
GroupGetGroupId(g) == g.Id
GroupGetLocalRange(g) == g.NDR.LocalRange
GroupGetOffset(g) == g.NDR.Offset
GroupGetNdRange(g) == g.NDR

\* nd_item(global_index, local_index, ndr) and its accessors
NdItem(global_index, local_index, n) ==
  [GlobalIndex |-> global_index, LocalIndex |-> local_index, NDRange |-> n]
GetGlobalId(i) == i.GlobalIndex
GetLocalId(i) == i.LocalIndex
GetLocalRange(i) == i.NDRange.LocalRange

\* nd_item::get_group_id(): get_global_id()/get_local_range(); the set of
\* the results the build can produce
GetGroupId(i) == OpDiv(GetGlobalId(i), GetLocalRange(i))

(***************************************************************************)
(* ParallelForIterate<level, Range, ParallelForFunctor, Id>.               *)
(*                                                                         *)
(* The recursion of constructors is kept as a stack: sycl_index holds the  *)
(* _sycl_index of every loop that is being executed, outermost first; base *)
(* is the dimension of the outermost of them (Range::dimensionality -      *)
(* level of the first constructor, plus one).  st is "loop" when the       *)
(* innermost loop is about to test its condition, "call" when the level 0  *)
(* specialisation is about to invoke f, and "done" when the first          *)
(* constructor has returned.                                               *)
(***************************************************************************)
\* the template parameter level of the constructor running the innermost loop
Level(i) == Len(i.r) - i.base - Len(i.sycl_index) + 2

\* a nesting order that starts with the last dimension
DimOfLevel(i) == Level(i)

\* Range::dimensionality - level, the dimension the innermost running loop
\* iterates on
Dim(i) == Len(i.r) - Level(i) + 1

\* _sycl_index of the innermost running loop
Top(i) == i.sycl_index[Len(i.sycl_index)]

\* ParallelForIterate<level>{ r, f, index } with level = rank - base + 1;
\* level 0 is the specialisation that only calls f
\* the loops start at 1
ConstructFromOne(range, index, base) ==
  IF base > Len(range)
    THEN [r |-> range, base |-> base, sycl_index |-> <<>>, index |-> index, st |-> "call"]
    ELSE [r |-> range, base |-> base, sycl_index |-> <<1>>, index |-> index, st |-> "loop"]

Construct(range, index, base) ==
  IF base > Len(range)
    THEN [r |-> range, base |-> base, sycl_index |-> <<>>, index |-> index, st |-> "call"]
    ELSE [r |-> range, base |-> base, sycl_index |-> <<0>>, index |-> index, st |-> "loop"]

\* an end condition that runs one iteration too many
LoopCondLe(i) == Top(i) <= i.r[Dim(i)]

\* a loop that tests its condition after the first iteration only
LoopCondAfter(i) == Top(i) = 0 \/ Top(i) < i.r[Dim(i)]

\* a loop that counts in the component of the index
LoopCondIndex(i) == i.index[Dim(i)] < i.r[Dim(i)]

\* _sycl_index < _sycl_end, with _sycl_end = r[Range::dimensionality - level]
LoopCond(i) == Top(i) < i.r[Dim(i)]

\* a loop body that does not store the counter into the index
BodyNoStore(i) ==
  IF Level(i) - 1 = 0
    THEN [i EXCEPT !.st = "call"]
    ELSE [i EXCEPT !.sycl_index = Append(@, 0)]

\* the loop body: index[dimensionality - level] = _sycl_index, then construct
\* ParallelForIterate<level - 1>
Body(i) ==
  LET d == Dim(i)
      idx == [i.index EXCEPT ![d] = Top(i)]
  IN  IF Level(i) - 1 = 0
        THEN [i EXCEPT !.index = idx, !.st = "call"]
        ELSE [i EXCEPT !.index = idx, !.sycl_index = Append(@, 0)]

\* a constructor returns into the loop that made it: _sycl_index++
Return(i) ==
  IF i.sycl_index = <<>>
    THEN [i EXCEPT !.st = "done"]
    ELSE [i EXCEPT !.sycl_index[Len(i.sycl_index)] = @ + 1, !.st = "loop"]

\* the loop condition is false: the constructor is over
Exit(i) == Return([i EXCEPT !.sycl_index = SubSeq(@, 1, Len(@) - 1)])

Off == [r |-> <<>>, base |-> 1, sycl_index |-> <<>>, index |-> <<>>, st |-> "off", next |-> 0]

(***************************************************************************)
(* Flat dispatch.                                                          *)
(***************************************************************************)
\* the sequential launcher: Id index; ParallelForIterate<Dimensions>{ r, f, index }
StartSeq ==
  /\ pc = "idle"
  /\ pc' = "running"
  /\ variant' = "seq"
  /\ it' = [it EXCEPT ![1] = Construct(r, DefaultId(Len(r)), 1) @@ [next |-> 0]]
  /\ UNCHANGED <<r, sched, calls>> /\ UNCHANGED <<hierVars, opVars, bufVars, auxVars>>

\* #pragma omp parallel: every thread of the team allocates its own Id index
\* and reaches the omp for; the iterations 0 .. _sycl_end - 1 are distributed
StartOmp ==
  /\ pc = "idle"
  /\ pc' = "running"
  /\ variant' = "omp"
  /\ sched' \in [0..r[1] - 1 -> Workers]
  /\ it' = [w \in Workers |->
              [r |-> r, base |-> 2, sycl_index |-> <<>>, index |-> DefaultId(Len(r)),
               st |-> "ompfor", next |-> 0]]
  /\ UNCHANGED <<r, calls>> /\ UNCHANGED <<hierVars, opVars, bufVars, auxVars>>

\* a loop that is not distributed: every thread runs every iteration
OmpIterationsAll(s, w, from) == { k \in DOMAIN s : k >= from }

\* #pragma omp for: the iterations of the outermost loop this worker still
\* has to run
OmpIterations(s, w, from) == { k \in DOMAIN s : s[k] = w /\ k >= from }

Min(S) == CHOOSE x \in S : \A y \in S : x <= y

\* one iteration of the omp for loop starts, or the worker leaves the loop and
\* waits at the end of the parallel region
OmpFor(w) ==
  /\ pc = "running" /\ variant = "omp"
  /\ it[w].st = "ompfor"
  /\ LET mine == OmpIterations(sched, w, it[w].next)
     IN  IF mine = {}
           THEN it' = [it EXCEPT ![w].st = "barrier"]
           ELSE LET k == Min(mine)
                    idx == [it[w].index EXCEPT ![1] = k]
                IN  it' = [it EXCEPT ![w] =
                             Construct(r, idx, 2) @@ [next |-> k + 1]]
  /\ UNCHANGED <<r, variant, pc, sched, calls>> /\ UNCHANGED <<hierVars, opVars, bufVars, auxVars>>

\* where a worker goes on when its ParallelForIterate has returned
Resume(i, v) == IF i.st = "done" /\ v = "omp" THEN [i EXCEPT !.st = "ompfor"] ELSE i

IterBody(w) ==
  /\ pc = "running"
  /\ it[w].st = "loop"
  /\ LoopCond(it[w])
  /\ it' = [it EXCEPT ![w] = Body(@)]
  /\ UNCHANGED <<r, variant, pc, sched, calls>> /\ UNCHANGED <<hierVars, opVars, bufVars, auxVars>>

IterExit(w) ==
  /\ pc = "running"
  /\ it[w].st = "loop"
  /\ ~LoopCond(it[w])
  /\ it' = [it EXCEPT ![w] = Resume(Exit(@), variant)]
  /\ UNCHANGED <<r, variant, pc, sched, calls>> /\ UNCHANGED <<hierVars, opVars, bufVars, auxVars>>

\* ParallelForIterate<0>: f(index), and the constructor returns
Invoke(w) ==
  /\ pc = "running"
  /\ it[w].st = "call"
  /\ calls' = [calls EXCEPT ![w] = Append(@, it[w].index)]
  /\ it' = [it EXCEPT ![w] = Resume(Return(@), variant)]
  /\ UNCHANGED <<r, variant, pc, sched>>

\* f has no effect on the buffers
IterCall(w) == Invoke(w) /\ UNCHANGED <<hierVars, opVars, bufVars, auxVars>>

\* what f leaves in the index it was given by reference
Scribbled(index, s) ==
  [d \in 1..Len(index) |-> IF s[d] = -1 THEN index[d] ELSE s[d]]

\* ParallelForIterate<0>: f(index) with an f that assigns to components of
\* its argument, an l-value of the Id of the enumeration; then the
\* constructor returns
ScribbleCall(w) ==
  /\ pc = "running"
  /\ it[w].st = "call"
  /\ calls' = [calls EXCEPT ![w] = Append(@, it[w].index)]
  /\ it' = [it EXCEPT ![w] =
              Resume(Return([@ EXCEPT !.index = Scribbled(@, scribble)]), variant)]
  /\ UNCHANGED <<r, variant, pc, sched>>
  /\ UNCHANGED <<hierVars, opVars, bufVars, auxVars>>

\* a return that waits for one thread only
TeamJoinedAny(i) == \E w \in Workers : i[w].st = "barrier"

\* the end of the parallel region: the implicit barrier and join
TeamJoined(i) == \A w \in Workers : i[w].st = "barrier"

OmpJoin ==
  /\ pc = "running" /\ variant = "omp"
  /\ TeamJoined(it)
  /\ pc' = "returned"
  /\ UNCHANGED <<r, variant, sched, it, calls>> /\ UNCHANGED <<hierVars, opVars, bufVars, auxVars>>

SeqReturn ==
  /\ pc = "running" /\ variant = "seq"
  /\ it[1].st = "done"
  /\ pc' = "returned"
  /\ UNCHANGED <<r, variant, sched, it, calls>> /\ UNCHANGED <<hierVars, opVars, bufVars, auxVars>>

(***************************************************************************)
(* Hierarchical dispatch: parallel_for_workgroup calls the group callback  *)
(* for every work-group, and the group callback calls                      *)
(* parallel_for_workitem, which calls the item callback for every          *)
(* work-item of the group.  Both passes run on ParallelForIterate.         *)
(***************************************************************************)
\* the group the group callback is invoked with: the group pass writes its Id
\* through group::operator[]
CurrentGroup == Group(ndr, grp.index)

\* the nd_item the item pass builds for the local id l of the group g
WorkItem(g, l) ==
  NdItem(OpAdd(OpAdd(OpMul(GroupGetGroupId(g), GroupGetLocalRange(g)), l),
               GroupGetOffset(g)),
         l, GroupGetNdRange(g))

\* parallel_for_workgroup(r, f): iterate on r.get_group_range()
HStart ==
  /\ hpc = "idle"
  /\ hpc' = "groups"
  /\ \E gr \in GetGroupRange(ndr) :
       grp' = Construct(gr, DefaultId(Len(gr)), 1)
  /\ UNCHANGED <<ndr, itm, gcalls, icalls>> /\ UNCHANGED <<flatVars, opVars, bufVars, auxVars>>

GroupBody ==
  /\ hpc = "groups"
  /\ grp.st = "loop"
  /\ LoopCond(grp)
  /\ grp' = Body(grp)
  /\ UNCHANGED <<ndr, hpc, itm, gcalls, icalls>> /\ UNCHANGED <<flatVars, opVars, bufVars, auxVars>>

GroupExit ==
  /\ hpc = "groups"
  /\ grp.st = "loop"
  /\ ~LoopCond(grp)
  /\ grp' = Exit(grp)
  /\ UNCHANGED <<ndr, hpc, itm, gcalls, icalls>> /\ UNCHANGED <<flatVars, opVars, bufVars, auxVars>>

\* f(g): the group callback starts parallel_for_workitem(g, ...), which
\* iterates on g.get_local_range() with a fresh local id
GroupCall ==
  /\ hpc = "groups"
  /\ grp.st = "call"
  /\ gcalls' = Append(gcalls, GroupGetGroupId(CurrentGroup))
  /\ itm' = Construct(GroupGetLocalRange(CurrentGroup),
                      DefaultId(Len(GroupGetLocalRange(CurrentGroup))), 1)
  /\ hpc' = "items"
  /\ UNCHANGED <<ndr, grp, icalls>> /\ UNCHANGED <<flatVars, opVars, bufVars, auxVars>>

ItemBody ==
  /\ hpc = "items"
  /\ itm.st = "loop"
  /\ LoopCond(itm)
  /\ itm' = Body(itm)
  /\ UNCHANGED <<ndr, hpc, grp, gcalls, icalls>> /\ UNCHANGED <<flatVars, opVars, bufVars, auxVars>>

ItemExit ==
  /\ hpc = "items"
  /\ itm.st = "loop"
  /\ ~LoopCond(itm)
  /\ itm' = Exit(itm)
  /\ UNCHANGED <<ndr, hpc, grp, gcalls, icalls>> /\ UNCHANGED <<flatVars, opVars, bufVars, auxVars>>

\* the item callback is invoked with the work-item of the current local id
ItemCall ==
  /\ hpc = "items"
  /\ itm.st = "call"
  /\ icalls' = Append(icalls, [pass |-> Len(gcalls),
                               item |-> WorkItem(CurrentGroup, itm.index)])
  /\ itm' = Return(itm)
  /\ UNCHANGED <<ndr, hpc, grp, gcalls>> /\ UNCHANGED <<flatVars, opVars, bufVars, auxVars>>

\* parallel_for_workitem and the group callback return into the group pass
ItemReturn ==
  /\ hpc = "items"
  /\ itm.st = "done"
  /\ grp' = Return(grp)
  /\ hpc' = "groups"
  /\ UNCHANGED <<ndr, itm, gcalls, icalls>> /\ UNCHANGED <<flatVars, opVars, bufVars, auxVars>>

HReturn ==
  /\ hpc = "groups"
  /\ grp.st = "done"
  /\ hpc' = "returned"
  /\ UNCHANGED <<ndr, grp, itm, gcalls, icalls>> /\ UNCHANGED <<flatVars, opVars, bufVars, auxVars>>

(***************************************************************************)
(* The elementwise operators applied to two ranges of the same rank.       *)
(***************************************************************************)
ApplyDiv ==
  /\ result = <<>>
  /\ result' \in OpDiv(dividend, divisor)
  /\ UNCHANGED <<dividend, divisor>> /\ UNCHANGED <<flatVars, hierVars, bufVars, auxVars>>

(***************************************************************************)
(* The constructors of RangeImpl<dims>.  coords holds the objects          *)
(* constructed, each with the constructor that made it.  The operators     *)
(* read components 0 .. Dimensions - 1 of their operands: they are applied *)
(* to operands that have at least that many components, with a divisor     *)
(* without zero.                                                           *)
(***************************************************************************)
Constructed(v, c) == [v |-> v, ctor |-> c]

\* RangeImpl() : vector(Dimensions) {}
CtorDefault ==
  /\ ~fault /\ Len(coords) < MaxCoords
  /\ coords' = Append(coords, Constructed(DefaultId(dims), "default"))
  /\ UNCHANGED <<offs, fault, lastRead, gone, freed, dims, scribble>>
  /\ UNCHANGED <<flatVars, hierVars, opVars, bufVars>>

\* RangeImpl(std::initializer_list<std::intptr_t> l) : vector(l)
\* { assert(Dimensions == l.size()); }
CtorList ==
  /\ ~fault /\ Len(coords) < MaxCoords
  /\ \E n \in Ranks : \E l \in [1..n -> 0..MaxOperand] :
       IF dims = Len(l)
         THEN coords' = Append(coords, Constructed(l, "list")) /\ UNCHANGED fault
         ELSE fault' = TRUE /\ UNCHANGED coords
  /\ UNCHANGED <<offs, lastRead, gone, freed, dims, scribble>>
  /\ UNCHANGED <<flatVars, hierVars, opVars, bufVars>>

\* RangeImpl(const RangeImpl &init) : vector(init) {}
CtorCopy ==
  /\ ~fault /\ Len(coords) < MaxCoords
  /\ \E k \in 1..Len(coords) :
       coords' = Append(coords, Constructed(coords[k].v, "copy"))
  /\ UNCHANGED <<offs, fault, lastRead, gone, freed, dims, scribble>>
  /\ UNCHANGED <<flatVars, hierVars, opVars, bufVars>>

\* using std::vector<std::intptr_t>::vector: the inherited constructors
\* vector(size_type n) and vector(size_type n, const value_type &value)
CtorCount ==
  /\ ~fault /\ Len(coords) < MaxCoords
  /\ \E n \in 0..MaxRank, value \in 0..MaxOperand :
       coords' = Append(coords, Constructed([d \in 1..n |-> value], "count"))
  /\ UNCHANGED <<offs, fault, lastRead, gone, freed, dims, scribble>>
  /\ UNCHANGED <<flatVars, hierVars, opVars, bufVars>>

\* the components an operator of RangeImpl<n> reads
Read(v, n) == SubSeq(v, 1, n)

\* operator /, operator *, operator +: RangeImpl<Dimensions> result; then
\* result[i] is set for i < Dimensions
Apply(op, a, b, n) ==
  CASE op = "/" -> OpDiv(Read(a, n), Read(b, n))
    [] op = "*" -> {OpMul(Read(a, n), Read(b, n))}
    [] op = "+" -> {OpAdd(Read(a, n), Read(b, n))}

ApplyOp ==
  /\ ~fault
  /\ \E j, k \in 1..Len(coords), op \in {"/", "*", "+"} :
       /\ Len(coords[j].v) >= dims /\ Len(coords[k].v) >= dims
       /\ op = "/" => \A d \in 1..dims : coords[k].v[d] # 0
       /\ dividend' = coords[j].v
       /\ divisor' = coords[k].v
       /\ result' \in Apply(op, coords[j].v, coords[k].v, dims)
  /\ UNCHANGED <<flatVars, hierVars, bufVars, auxVars>>

(***************************************************************************)
(* BufferImpl and AccessorImpl.                                            *)
(*                                                                         *)
(* heap is the element storage: block 1 is an array of the caller, the     *)
(* other blocks are the storage of boost::multi_array allocations.  A      *)
(* boost::multi_array_ref is a base (a block) and an extent; its elements  *)
(* are laid out in row-major order.                                        *)
(***************************************************************************)
Values == 0..MaxValue
Modes == {"read", "read_write"}
HostBlock == 1

\* boost::multi_array_ref<T, dimensions>(base, extent)
ArrayRef(base, extent) == [base |-> base, extent |-> extent]

\* storage sized by the first dimension only
ZeroBlockFirstDim(extent) == [k \in 1..extent[1] |-> 0]

\* boost::multi_array<T, dimensions>(extent): new storage, value-initialised
ZeroBlock(extent) == [k \in 1..Product(extent) |-> 0]

\* the position of the element id in the storage of a multi_array_ref
RECURSIVE OffsetFrom(_, _, _)
OffsetFrom(extent, id, d) ==
  IF d > Len(extent) THEN 0
  ELSE id[d] * ProductFrom(extent, d + 1) + OffsetFrom(extent, id, d + 1)
Offset(extent, id) == OffsetFrom(extent, id, 1)

\* the element id of a multi_array_ref
Element(h, a, id) == h[a.base][Offset(a.extent, id) + 1]

\* the first Product(a.extent) elements of the block of a multi_array_ref
Contents(h, a) == [k \in 1..Product(a.extent) |-> h[a.base][k]]

\* the extents of the buffers: 1 or 2 dimensions, at most MaxElems elements
BufExtents ==
  { e \in UNION { [1..n -> 1..MaxElems] : n \in 1..2 } : Product(e) <= MaxElems }

\* BufferImpl(RangeImpl const &r): Allocation(r), Access(Allocation),
\* ReadOnly(false)
NewBuffer ==
  /\ Len(bufs) < MaxBuffers
  /\ \E e \in BufExtents :
       /\ heap' = Append(heap, ZeroBlock(e))
       /\ bufs' = Append(bufs, [Allocation |-> Len(heap) + 1,
                                Access |-> ArrayRef(Len(heap) + 1, e),
                                ReadOnly |-> FALSE, from |-> 0,
                                ctor |-> "range"])
  /\ UNCHANGED <<views, lastWrite>> /\ UNCHANGED <<flatVars, hierVars, opVars, auxVars>>

\* a constructor that copies the caller's elements into storage of its own
NewBufferHostCopy ==
  /\ Len(bufs) < MaxBuffers
  /\ \E e \in BufExtents, ro \in BOOLEAN :
       /\ heap' = Append(heap, Contents(heap, ArrayRef(HostBlock, e)))
       /\ bufs' = Append(bufs, [Allocation |-> Len(heap) + 1,
                                Access |-> ArrayRef(Len(heap) + 1, e),
                                ReadOnly |-> ro, from |-> 0,
                                ctor |-> IF ro THEN "const_host" ELSE "host"])
  /\ UNCHANGED <<views, lastWrite>> /\ UNCHANGED <<flatVars, hierVars, opVars, auxVars>>

\* BufferImpl(T *host_data, RangeImpl r): Access(host_data, r), ReadOnly(false)
\* BufferImpl(const T *host_data, RangeImpl r): Access(host_data, r),
\* ReadOnly(true); no allocation
NewBufferHost ==
  /\ Len(bufs) < MaxBuffers
  /\ \E e \in BufExtents, ro \in BOOLEAN :
       bufs' = Append(bufs, [Allocation |-> 0,
                             Access |-> ArrayRef(HostBlock, e),
                             ReadOnly |-> ro, from |-> 0,
                             ctor |-> IF ro THEN "const_host" ELSE "host"])
  /\ UNCHANGED <<heap, views, lastWrite>> /\ UNCHANGED <<flatVars, hierVars, opVars, auxVars>>

\* the value of a member that no initialiser of the constructor sets
Indeterminate == BOOLEAN

\* the elements of [start_iterator, end_iterator), two positions of the
\* caller's array
SourceRange(h, first, last) == SubSeq(h[HostBlock], first + 1, last)

\* BufferImpl(const T *start_iterator, const T *end_iterator):
\* Allocation(boost::extents[std::distance(start_iterator, end_iterator)]),
\* Access(Allocation), then Allocation.assign(start_iterator, end_iterator);
\* ReadOnly is left without a value
NewBufferRange ==
  /\ Len(bufs) < MaxBuffers
  /\ \E first \in 0..MaxElems, ro \in Indeterminate :
       \E last \in first..MaxElems :
         /\ heap' = Append(heap, SourceRange(heap, first, last))
         /\ bufs' = Append(bufs, [Allocation |-> Len(heap) + 1,
                                  Access |-> ArrayRef(Len(heap) + 1, <<last - first>>),
                                  ReadOnly |-> ro, from |-> 0, ctor |-> "iterators",
                                  first |-> first, last |-> last])
  /\ UNCHANGED <<views, lastWrite>> /\ UNCHANGED <<flatVars, hierVars, opVars, auxVars>>

\* a copy that shares the caller's array when its source wraps it, and has
\* storage of its own otherwise
CopiedBufferBorrowing(h, b, n) ==
  IF b.Allocation = 0
    THEN [Allocation |-> 0, Access |-> b.Access,
          ReadOnly |-> FALSE, from |-> n, ctor |-> "copy"]
    ELSE [Allocation |-> Len(h) + 1,
          Access |-> ArrayRef(Len(h) + 1, b.Access.extent),
          ReadOnly |-> FALSE, from |-> n, ctor |-> "copy"]

\* BufferImpl(const BufferImpl &b): Allocation(b.Access), Access(Allocation),
\* ReadOnly(false): a new allocation holding a copy of the elements of b
CopiedBuffer(h, b, n) ==
  [Allocation |-> Len(h) + 1,
   Access |-> ArrayRef(Len(h) + 1, b.Access.extent),
   ReadOnly |-> FALSE, from |-> n, ctor |-> "copy"]

CopyBuffer ==
  /\ Len(bufs) < MaxBuffers
  /\ \E n \in (1..Len(bufs)) \ gone :
       /\ heap' = Append(heap, Contents(heap, bufs[n].Access))
       /\ bufs' = Append(bufs, CopiedBuffer(heap, bufs[n], n))
  /\ UNCHANGED <<views, lastWrite>> /\ UNCHANGED <<flatVars, hierVars, opVars, auxVars>>

\* BufferImpl::get_access<mode>(): AccessorImpl(targetBuffer) :
\* Array(targetBuffer.Access)
GetAccess ==
  /\ Len(views) < MaxViews
  /\ \E n \in (1..Len(bufs)) \ gone, m \in Modes :
       views' = Append(views, [Array |-> bufs[n].Access, mode |-> m, buf |-> n])
  /\ UNCHANGED <<heap, bufs, lastWrite>> /\ UNCHANGED <<flatVars, hierVars, opVars, auxVars>>

\* the template arguments <mode, target> of the accessors taken
Kinds == {<<"read", "global_buffer">>, <<"read", "host_buffer">>,
          <<"read_write", "global_buffer">>}

\* an accessor that wraps a copy of the elements made when it is created
GetAccessCopy ==
  /\ Len(views) < MaxViews
  /\ \E n \in (1..Len(bufs)) \ gone, k \in Kinds :
       /\ heap' = Append(heap, Contents(heap, bufs[n].Access))
       /\ views' = Append(views, [Array |-> ArrayRef(Len(heap) + 1, bufs[n].Access.extent),
                                  mode |-> k[1], target |-> k[2], buf |-> n])
  /\ UNCHANGED <<bufs, lastWrite>> /\ UNCHANGED <<flatVars, hierVars, opVars, auxVars>>

\* BufferImpl::get_access<mode, target>(): AccessorImpl(targetBuffer) :
\* Array(targetBuffer.Access); mode and target are template arguments that
\* no member of AccessorImpl looks at
GetAccessTarget ==
  /\ Len(views) < MaxViews
  /\ \E n \in (1..Len(bufs)) \ gone, k \in Kinds :
       views' = Append(views, [Array |-> bufs[n].Access, mode |-> k[1],
                               target |-> k[2], buf |-> n])
  /\ UNCHANGED <<heap, bufs, lastWrite>> /\ UNCHANGED <<flatVars, hierVars, opVars, auxVars>>

\* ~BufferImpl(): the members are destroyed; the multi_array Allocation
\* releases its storage, if it has any
DestroyBuffer ==
  /\ \E n \in (1..Len(bufs)) \ gone :
       /\ gone' = gone \cup {n}
       /\ freed' = IF bufs[n].Allocation = 0 THEN freed
                   ELSE Append(freed, bufs[n].Allocation)
  /\ UNCHANGED <<offs, fault, lastRead, dims, coords, scribble>>
  /\ UNCHANGED <<flatVars, hierVars, opVars, bufVars>>

\* AccessorImpl::operator[](IdImpl Index) gives a writable reference to the
\* element: accessor[id] = val
Store(h, a, id, val) == [h EXCEPT ![a.base][Offset(a.extent, id) + 1] = val]

\* an element write that takes effect through read_write accessors only
WriteElementByMode ==
  /\ \E v \in 1..Len(views) :
       \E id \in Box(views[v].Array.extent), val \in Values :
         /\ heap' = IF views[v].mode = "read_write"
                      THEN Store(heap, views[v].Array, id, val)
                      ELSE heap
         /\ lastWrite' = <<[view |-> v, id |-> id, val |-> val]>>
  /\ UNCHANGED <<bufs, views>> /\ UNCHANGED <<flatVars, hierVars, opVars, auxVars>>

WriteElement ==
  /\ \E v \in 1..Len(views) :
       \E id \in Box(views[v].Array.extent), val \in Values :
         /\ heap' = Store(heap, views[v].Array, id, val)
         /\ lastWrite' = <<[view |-> v, id |-> id, val |-> val]>>
  /\ UNCHANGED <<bufs, views>> /\ UNCHANGED <<flatVars, hierVars, opVars, auxVars>>

\* accessor[id] = val, at most MaxWrites times; every write is kept
WriteLogged ==
  /\ Len(lastWrite) < MaxWrites
  /\ \E v \in 1..Len(views) :
       \E id \in Box(views[v].Array.extent), val \in Values :
         /\ heap' = Store(heap, views[v].Array, id, val)
         /\ lastWrite' = Append(lastWrite, [view |-> v, id |-> id, val |-> val])
  /\ UNCHANGED <<bufs, views>> /\ UNCHANGED <<flatVars, hierVars, opVars, auxVars>>

\* the value read by accessor[id]
ReadElement(v, id) == Element(heap, views[v].Array, id)

(***************************************************************************)
(* Element access with any subscript.  The three operator[] of             *)
(* AccessorImpl hand Index, Index and Index.get_global() to the            *)
(* multi_array_ref, whose element access asserts (BOOST_ASSERT, range      *)
(* checking is on unless BOOST_DISABLE_ASSERTS is defined) that every      *)
(* component lies in [0, extent); a failed assertion aborts the program.   *)
(* operator[](std::size_t) yields an element for one dimension only.       *)
(***************************************************************************)
\* the subscripts tried: every component from -1 to the extent
Subscripts(extent) ==
  { id \in [1..Len(extent) -> -1..MaxOf(extent)] :
      \A d \in 1..Len(extent) : id[d] <= extent[d] }

\* a range check that accepts the extent itself
InBoundsIncl(extent, id) ==
  \A d \in 1..Len(extent) : 0 <= id[d] /\ id[d] <= extent[d]

\* the range check of the element access
InBounds(extent, id) ==
  \A d \in 1..Len(extent) : 0 <= id[d] /\ id[d] < extent[d]

\* accessor[id] = val
WriteAt ==
  /\ ~fault
  /\ \E v \in 1..Len(views) :
       \E id \in Subscripts(views[v].Array.extent), val \in Values :
         IF InBounds(views[v].Array.extent, id)
           THEN /\ heap' = Store(heap, views[v].Array, id, val)
                /\ lastWrite' = <<[view |-> v, id |-> id, val |-> val]>>
                /\ UNCHANGED <<fault, lastRead>>
           ELSE /\ fault' = TRUE
                /\ UNCHANGED <<heap, lastWrite, lastRead>>
  /\ UNCHANGED <<bufs, views, offs, gone, freed, dims, coords, scribble>>
  /\ UNCHANGED <<flatVars, hierVars, opVars>>

\* val = accessor[id]
ReadAt ==
  /\ ~fault
  /\ \E v \in 1..Len(views) :
       \E id \in Subscripts(views[v].Array.extent) :
         IF InBounds(views[v].Array.extent, id)
           THEN /\ lastRead' = <<[view |-> v, id |-> id, val |-> ReadElement(v, id)]>>
                /\ UNCHANGED fault
           ELSE /\ fault' = TRUE
                /\ UNCHANGED lastRead
  /\ UNCHANGED <<heap, bufs, views, lastWrite, offs, gone, freed, dims, coords, scribble>>
  /\ UNCHANGED <<flatVars, hierVars, opVars>>

\* the caller assigns to an element of the array that a buffer wraps:
\* host_data[k] = val; the write is recorded with view 0
CallerWrite ==
  /\ \E n \in 1..Len(bufs) : bufs[n].Access.base = HostBlock
  /\ \E k \in 1..MaxElems, val \in Values :
       /\ heap' = [heap EXCEPT ![HostBlock][k] = val]
       /\ lastWrite' = <<[view |-> 0, id |-> <<k - 1>>, val |-> val]>>
  /\ UNCHANGED <<bufs, views>> /\ UNCHANGED <<flatVars, hierVars, opVars, auxVars>>

\* one buffer is constructed, by any constructor but the copy constructor
FirstBuffer ==
  /\ bufs = <<>> /\ ~fault
  /\ (NewBuffer \/ NewBufferHost \/ NewBufferRange)

\* one accessor is taken from it
FirstAccess ==
  /\ views = <<>> /\ ~fault
  /\ GetAccess

(***************************************************************************)
(* A kernel that throws.  No constructor of the iteration has a handler:   *)
(* in the sequential variant the exception unwinds every loop and leaves   *)
(* the dispatch call.  In the OpenMP variant it leaves the structured      *)
(* block of the omp for and of the parallel region, which OpenMP does not  *)
(* allow: the behaviour is undefined.  The builds call std::terminate;     *)
(* the other outcome followed is that the frames of the throwing thread    *)
(* alone are unwound and the exception leaves the call after the join.     *)
(***************************************************************************)
Escapes == {"terminate", "unwind"}

\* f(index) throws
IterThrow(w) ==
  /\ pc = "running"
  /\ it[w].st = "call"
  /\ calls' = [calls EXCEPT ![w] = Append(@, it[w].index)]
  /\ it' = [it EXCEPT ![w].st = "thrown"]
  /\ IF variant = "seq"
       THEN pc' = "failed"
       ELSE \E e \in Escapes :
              pc' = IF e = "terminate" THEN "terminated" ELSE pc
  /\ UNCHANGED <<r, variant, sched>>
  /\ UNCHANGED <<hierVars, opVars, bufVars, auxVars>>

\* the end of the parallel region when a thread has been unwound
FailJoin ==
  /\ pc = "running" /\ variant = "omp"
  /\ \A w \in Workers : it[w].st \in {"barrier", "thrown"}
  /\ \E w \in Workers : it[w].st = "thrown"
  /\ pc' = "failed"
  /\ UNCHANGED <<r, variant, sched, it, calls>>
  /\ UNCHANGED <<hierVars, opVars, bufVars, auxVars>>

(***************************************************************************)
(* Flat dispatch with an offset: parallel_for(global_size, offset, f)      *)
(* iterates on global_size like the flat dispatch and calls f with the     *)
(* item of the index moved by the offset.                                  *)
(***************************************************************************)
\* an item built without its third argument, which defaults to id<dims>()
ItemNoOffset(global_size, global_index, offset) ==
  [Range |-> global_size, GlobalIndex |-> global_index,
   Offset |-> DefaultId(Len(global_size))]

\* item(global_size, global_index, offset)
Item(global_size, global_index, offset) ==
  [Range |-> global_size, GlobalIndex |-> global_index, Offset |-> offset]

\* item::get_global_id(), get_global_range(), get_offset()
ItemGetGlobalId(i) == i.GlobalIndex
ItemGetGlobalRange(i) == i.Range
ItemGetOffset(i) == i.Offset

\* f(item(global_size, index + offset, offset)), and the constructor returns
OffsetCall(w) ==
  /\ pc = "running"
  /\ it[w].st = "call"
  /\ calls' = [calls EXCEPT ![w] = Append(@, Item(r, OpAdd(it[w].index, offs), offs))]
  /\ it' = [it EXCEPT ![w] = Resume(Return(@), variant)]
  /\ UNCHANGED <<r, variant, pc, sched>>
  /\ UNCHANGED <<hierVars, opVars, bufVars, auxVars>>

(***************************************************************************)
(* A kernel that stores its index: f is [=](id<1> index) { a[index] =      *)
(* index[0]; } with a an accessor (view 1) of a buffer of r elements.      *)
(***************************************************************************)
KernelCall(w) ==
  /\ Invoke(w)
  /\ ~fault
  /\ LET a == views[1].Array
         id == it[w].index
     IN  IF InBounds(a.extent, id)
           THEN /\ heap' = Store(heap, a, id, id[1])
                /\ lastWrite' = <<[view |-> 1, id |-> id, val |-> id[1]]>>
                /\ UNCHANGED fault
           ELSE /\ fault' = TRUE
                /\ UNCHANGED <<heap, lastWrite>>
  /\ UNCHANGED <<bufs, views, lastRead, offs, gone, freed, dims, coords, scribble>>
  /\ UNCHANGED <<hierVars, opVars>>

(***************************************************************************)
(* The specifications.                                                     *)
(***************************************************************************)
Extents == UNION { [1..n -> 0..MaxExtent] : n \in Ranks }

FlatIdle ==
  /\ r = <<1>>
  /\ variant = "none"
  /\ pc = "idle"
  /\ sched = <<>>
  /\ it = [w \in Workers |-> Off]
  /\ calls = [w \in Workers |-> <<>>]

HierIdle ==
  /\ ndr = NdRange(<<1>>, <<1>>, <<0>>)
  /\ hpc = "idle"
  /\ grp = Off
  /\ itm = Off
  /\ gcalls = <<>>
  /\ icalls = <<>>

OpIdle ==
  /\ dividend = <<>>
  /\ divisor = <<>>
  /\ result = <<>>

BufIdle ==
  /\ heap = <<>>
  /\ bufs = <<>>
  /\ views = <<>>
  /\ lastWrite = <<>>

AuxIdle ==
  /\ offs = <<>>
  /\ fault = FALSE
  /\ lastRead = <<>>
  /\ gone = {}
  /\ freed = <<>>
  /\ dims = 0
  /\ coords = <<>>
  /\ scribble = <<>>

InitFlat ==
  /\ r \in Extents
  /\ variant = "none"
  /\ pc = "idle"
  /\ sched = <<>>
  /\ it = [w \in Workers |-> Off]
  /\ calls = [w \in Workers |-> <<>>]
  /\ HierIdle /\ OpIdle /\ BufIdle /\ AuxIdle

NextFlat ==
  \/ StartSeq
  \/ StartOmp
  \/ \E w \in Workers : OmpFor(w)
  \/ \E w \in Workers : IterBody(w)
  \/ \E w \in Workers : IterExit(w)
  \/ \E w \in Workers : IterCall(w)
  \/ OmpJoin
  \/ SeqReturn

\* the flat dispatch, sequential and OpenMP
Spec == InitFlat /\ [][NextFlat]_vars

InitHier ==
  /\ \E n \in HierRanks :
       \E global \in [1..n -> 0..MaxGlobal], local \in [1..n -> 1..MaxLocal],
          offset \in [1..n -> 0..MaxOffset] :
         ndr = NdRange(global, local, offset)
  /\ hpc = "idle"
  /\ grp = Off
  /\ itm = Off
  /\ gcalls = <<>>
  /\ icalls = <<>>
  /\ FlatIdle /\ OpIdle /\ BufIdle /\ AuxIdle

NextHier ==
  \/ HStart
  \/ GroupBody
  \/ GroupExit
  \/ GroupCall
  \/ ItemBody
  \/ ItemExit
  \/ ItemCall
  \/ ItemReturn
  \/ HReturn

\* the hierarchical dispatch
SpecHier == InitHier /\ [][NextHier]_vars

\* the operands: small values and the largest values of std::intptr_t, the
\* latter in at most one component of one operand
Operands == (0..MaxOperand) \cup {IntMax - 1, IntMax}
Large(v) == { d \in 1..Len(v) : v[d] > MaxOperand }

InitOp ==
  /\ \E n \in Ranks :
       /\ dividend \in [1..n -> Operands]
       /\ divisor \in [1..n -> Operands \ {0}]
  /\ Cardinality(Large(dividend)) + Cardinality(Large(divisor)) <= 1
  /\ result = <<>>
  /\ FlatIdle /\ HierIdle /\ BufIdle /\ AuxIdle

NextOp == ApplyDiv

\* the elementwise operators on ranges
SpecOp == InitOp /\ [][NextOp]_vars

InitBuf ==
  /\ \E host \in [1..MaxElems -> Values] : heap = <<host>>
  /\ bufs = <<>>
  /\ views = <<>>
  /\ lastWrite = <<>>
  /\ FlatIdle /\ HierIdle /\ OpIdle /\ AuxIdle

NextBuf ==
  \/ NewBuffer
  \/ NewBufferHost
  \/ NewBufferRange
  \/ CopyBuffer
  \/ GetAccess
  \/ WriteElement

\* buffers and accessors
SpecBuf == InitBuf /\ [][NextBuf]_vars

InitLife ==
  /\ heap = <<[k \in 1..MaxElems |-> 0]>>
  /\ bufs = <<>>
  /\ views = <<>>
  /\ lastWrite = <<>>
  /\ FlatIdle /\ HierIdle /\ OpIdle /\ AuxIdle

NextLife ==
  \/ NewBuffer
  \/ CopyBuffer
  \/ GetAccess
  \/ DestroyBuffer

\* construction, copy and destruction of buffers
SpecLife == InitLife /\ [][NextLife]_vars

NextFail ==
  \/ NextFlat
  \/ \E w \in Workers : IterThrow(w)
  \/ FailJoin

\* the flat dispatch of a kernel that may throw
SpecFail == InitFlat /\ [][NextFail]_vars

InitCoord ==
  /\ dims \in Ranks
  /\ coords = <<>>
  /\ scribble = <<>>
  /\ offs = <<>>
  /\ fault = FALSE
  /\ lastRead = <<>>
  /\ gone = {}
  /\ freed = <<>>
  /\ FlatIdle /\ HierIdle /\ OpIdle /\ BufIdle

NextCoord ==
  \/ CtorDefault
  \/ CtorList
  \/ CtorCopy
  \/ CtorCount
  \/ ApplyOp

\* the constructors and operators of RangeImpl
SpecCoord == InitCoord /\ [][NextCoord]_vars

\* the offsets: an id, whose components are signed
Offsets(n) == [1..n -> (-MaxOffset)..MaxOffset]

InitOff ==
  /\ \E n \in HierRanks : r \in [1..n -> 0..MaxExtent] /\ offs \in Offsets(n)
  /\ variant = "none"
  /\ pc = "idle"
  /\ sched = <<>>
  /\ it = [w \in Workers |-> Off]
  /\ calls = [w \in Workers |-> <<>>]
  /\ fault = FALSE
  /\ lastRead = <<>>
  /\ gone = {}
  /\ freed = <<>>
  /\ dims = 0
  /\ coords = <<>>
  /\ scribble = <<>>
  /\ HierIdle /\ OpIdle /\ BufIdle

NextOff ==
  \/ StartSeq
  \/ StartOmp
  \/ \E w \in Workers : OmpFor(w)
  \/ \E w \in Workers : IterBody(w)
  \/ \E w \in Workers : IterExit(w)
  \/ \E w \in Workers : OffsetCall(w)
  \/ OmpJoin
  \/ SeqReturn

\* the flat dispatch with an offset
SpecOff == InitOff /\ [][NextOff]_vars

\* a buffer of r elements constructed from the range r, and an accessor of it
InitKernel ==
  /\ \E n \in 0..MaxLength : r = <<n>>
  /\ variant = "none"
  /\ pc = "idle"
  /\ sched = <<>>
  /\ it = [w \in Workers |-> Off]
  /\ calls = [w \in Workers |-> <<>>]
  /\ heap = <<<<>>, ZeroBlock(r)>>
  /\ bufs = <<[Allocation |-> Len(heap), Access |-> ArrayRef(Len(heap), r),
               ReadOnly |-> FALSE, from |-> 0, ctor |-> "range"]>>
  /\ views = <<[Array |-> bufs[1].Access, mode |-> "read_write", buf |-> 1]>>
  /\ lastWrite = <<>>
  /\ HierIdle /\ OpIdle /\ AuxIdle

NextKernel ==
  \/ StartSeq
  \/ StartOmp
  \/ \E w \in Workers : OmpFor(w)
  \/ \E w \in Workers : IterBody(w)
  \/ \E w \in Workers : IterExit(w)
  \/ \E w \in Workers : KernelCall(w)
  \/ OmpJoin
  \/ SeqReturn

\* the flat dispatch of a kernel that writes a buffer
SpecKernel == InitKernel /\ [][NextKernel]_vars

\* the caller's array holds consecutive values, starting anywhere
InitAcc ==
  /\ \E c \in Values :
       heap = <<[k \in 1..MaxElems |-> (k + c) % (MaxValue + 1)]>>
  /\ bufs = <<>>
  /\ views = <<>>
  /\ lastWrite = <<>>
  /\ FlatIdle /\ HierIdle /\ OpIdle /\ AuxIdle

NextAcc ==
  \/ FirstBuffer
  \/ FirstAccess
  \/ WriteAt
  \/ ReadAt

\* one buffer, one accessor, element accesses with any subscript
SpecAcc == InitAcc /\ [][NextAcc]_vars

\* one buffer is constructed, with storage of its own or wrapping the
\* caller's array
OwnedOrBorrowed ==
  /\ bufs = <<>>
  /\ (NewBuffer \/ NewBufferHost)

NextView ==
  \/ OwnedOrBorrowed
  \/ GetAccessTarget
  \/ WriteElement
  \/ CallerWrite

\* what f may assign to a component: nothing (-1), the first value of every
\* loop, or a value past the end of every loop
Patterns(n) == [1..n -> {-1, 0, MaxExtent}]

InitScribble ==
  /\ r \in Extents
  /\ variant = "none"
  /\ pc = "idle"
  /\ sched = <<>>
  /\ it = [w \in Workers |-> Off]
  /\ calls = [w \in Workers |-> <<>>]
  /\ scribble \in Patterns(Len(r))
  /\ offs = <<>>
  /\ fault = FALSE
  /\ lastRead = <<>>
  /\ gone = {}
  /\ freed = <<>>
  /\ dims = 0
  /\ coords = <<>>
  /\ HierIdle /\ OpIdle /\ BufIdle

NextScribble ==
  \/ StartSeq
  \/ \E w \in Workers : IterBody(w)
  \/ \E w \in Workers : IterExit(w)
  \/ \E w \in Workers : ScribbleCall(w)
  \/ SeqReturn

\* the sequential flat dispatch of a callback that overwrites the index it
\* is given; the calling thread keeps running until the dispatch returns
SpecScribble == InitScribble /\ [][NextScribble]_vars /\ WF_vars(NextScribble)

NextCopy ==
  \/ FirstBuffer
  \/ CopyBuffer
  \/ FirstAccess
  \/ WriteLogged

\* a buffer, copies of it and of its copies, and writes through one accessor
SpecCopy == InitAcc /\ [][NextCopy]_vars

\* one buffer and several accessors of it, of any mode and target; the
\* caller goes on writing to its array
SpecView == InitAcc /\ [][NextView]_vars

(***************************************************************************)
(* Properties of the flat dispatch.                                        *)
(***************************************************************************)
\* the places (worker, position) where f was invoked with the index c
Visits(c) == { p \in UNION { {w} \X (1..Len(calls[w])) : w \in Workers } :
                 calls[p[1]][p[2]] = c }
Called == UNION { { calls[w][k] : k \in 1..Len(calls[w]) } : w \in Workers }
Finished(i) == \A w \in Workers : i[w].st \in {"off", "barrier", "done"}
HasZero(v) == \E d \in 1..Len(v) : v[d] = 0

\* a < b in the lexicographic order, dimension 1 the most significant
LexLess(a, b) ==
  \E d \in 1..Len(a) : a[d] < b[d] /\ \A e \in 1..(d - 1) : a[e] = b[e]

\* C1: a sequential flat dispatch (ParallelForIterate started at level = rank)
\* invokes the callback with pairwise distinct indices of the product of
\* [0, extent[d]), and when it returns it has made exactly product(extent)
\* invocations, one for every element of that product.
C1_SeqExactlyOnce ==
  variant = "seq" =>
    /\ \A k \in 1..Len(calls[1]) : calls[1][k] \in Box(r)
    /\ \A j, k \in 1..Len(calls[1]) : j # k => calls[1][j] # calls[1][k]
    /\ pc = "returned" =>
         /\ Len(calls[1]) = Product(r)
         /\ Called = Box(r)

C1_Witness ==
  /\ variant = "seq" /\ pc = "returned"
  /\ r = <<2, 1, 2>>
  /\ Len(calls[1]) = 4

\* C2: in the OpenMP variant, under every distribution of the outermost
\* iterations and every interleaving, no coordinate is passed to the callback
\* twice (by the same or by different workers), none lies outside the extent,
\* and when the dispatch returns every coordinate has been passed exactly once.
C2_OmpExactlyOnce ==
  variant = "omp" =>
    /\ \A c \in Called : c \in Box(r) /\ Cardinality(Visits(c)) = 1
    /\ pc = "returned" => \A c \in Box(r) : Cardinality(Visits(c)) = 1

C2_Witness ==
  /\ variant = "omp" /\ pc = "returned"
  /\ Len(r) >= 2 /\ Product(r) >= 4
  /\ \A w \in Workers : calls[w] # <<>>

\* C3: the dispatch call returns only after every worker has finished its
\* partition and the callback has been invoked for every coordinate; once it
\* has returned, no further callback invocation is made.
C3_Synchronous ==
  /\ [](pc = "returned" => Finished(it) /\ Called = Box(r))
  /\ [][pc = "returned" => calls' = calls]_vars

C3_Witness ==
  /\ variant = "omp" /\ pc = "returned"
  /\ \A w \in Workers : calls[w] # <<>>

\* C4: when some dimension of the extent is 0, the flat dispatch (sequential
\* or OpenMP) never invokes the callback, and it never stops before the call
\* has returned.
C4_ZeroExtent ==
  (variant # "none" /\ HasZero(r)) =>
    /\ \A w \in Workers : calls[w] = <<>>
    /\ pc # "returned" => ENABLED NextFlat

C4_Witness ==
  /\ pc = "returned"
  /\ Len(r) = 3 /\ r[1] > 0 /\ r[2] = 0 /\ r[3] > 0

\* C5: the indices one worker passes to the callback are in strictly
\* increasing lexicographic order, dimension 0 the most significant.
C5_LexOrder ==
  \A w \in Workers : \A j, k \in 1..Len(calls[w]) :
    j < k => LexLess(calls[w][j], calls[w][k])

C5_Witness ==
  /\ variant = "omp" /\ pc = "returned"
  /\ Len(r) = 3
  /\ \E w \in Workers : Len(calls[w]) >= 6

(***************************************************************************)
(* Properties of the hierarchical dispatch.                                *)
(***************************************************************************)
Divides(n) == \A d \in 1..Len(n.GlobalRange) : n.GlobalRange[d] % n.LocalRange[d] = 0
ZeroOffset(n) == \A d \in 1..Len(n.Offset) : n.Offset[d] = 0

\* the least integer q with q * b >= a  (a >= 0, b > 0)
Ceiling(a, b) == CHOOSE q \in 0..a : q * b >= a /\ \A p \in 0..(q - 1) : p * b < a

GroupCount(n) ==
  [d \in 1..Len(n.GlobalRange) |-> Ceiling(n.GlobalRange[d], n.LocalRange[d])]

\* the extent the groups cover: group count times local extent
Padded(n) == [d \in 1..Len(n.GlobalRange) |-> GroupCount(n)[d] * n.LocalRange[d]]

GroupsCalled == { gcalls[k] : k \in 1..Len(gcalls) }
GlobalIds == { GetGlobalId(icalls[k].item) : k \in 1..Len(icalls) }
DistinctGroups == \A j, k \in 1..Len(gcalls) : j # k => gcalls[j] # gcalls[k]
DistinctGlobalIds ==
  \A j, k \in 1..Len(icalls) :
    j # k => GetGlobalId(icalls[j].item) # GetGlobalId(icalls[k].item)

\* C6: when the local extent divides the global extent in every dimension and
\* the offset is zero, the group callback is invoked once per group coordinate
\* of [0, global/local) and the work-items produced have pairwise distinct
\* global indices that cover exactly the product of [0, global[d]).
C6_HierCoverage ==
  (hpc # "idle" /\ Divides(ndr) /\ ZeroOffset(ndr)) =>
    /\ DistinctGroups /\ GroupsCalled \subseteq Box(GroupCount(ndr))
    /\ DistinctGlobalIds /\ GlobalIds \subseteq Box(ndr.GlobalRange)
    /\ hpc = "returned" =>
         /\ GroupsCalled = Box(GroupCount(ndr))
         /\ GlobalIds = Box(ndr.GlobalRange)
         /\ Len(icalls) = Product(ndr.GlobalRange)

C6_Witness ==
  /\ hpc = "returned"
  /\ ndr = NdRange(<<4, 2>>, <<2, 1>>, <<0, 0>>)
  /\ Len(gcalls) = 4 /\ Len(icalls) = 8

\* C7: every work-item produced by the item pass of a group has, in every
\* dimension, global_index = group_id * local_extent + local_index + offset
\* with 0 <= local_index < local_extent, group_id being the id the group
\* callback of that pass was invoked with; for global {4,4}, local {2,2} and a
\* zero offset the item pass of group {1,0} produces exactly {2,0}, {2,1},
\* {3,0} and {3,1}.
C7_GlobalIndex ==
  /\ \A k \in 1..Len(icalls) :
       LET e == icalls[k]
           gid == gcalls[e.pass]
       IN  \A d \in 1..Len(ndr.GlobalRange) :
             /\ GetGlobalId(e.item)[d] =
                  gid[d] * ndr.LocalRange[d] + GetLocalId(e.item)[d] + ndr.Offset[d]
             /\ 0 <= GetLocalId(e.item)[d]
             /\ GetLocalId(e.item)[d] < ndr.LocalRange[d]
  /\ (hpc = "returned" /\ ndr = NdRange(<<4, 4>>, <<2, 2>>, <<0, 0>>)) =>
       LET of10 == { k \in 1..Len(icalls) : gcalls[icalls[k].pass] = <<1, 0>> }
       IN  /\ Cardinality(of10) = 4
           /\ { GetGlobalId(icalls[k].item) : k \in of10 } =
                { <<2, 0>>, <<2, 1>>, <<3, 0>>, <<3, 1>> }

C7_Witness ==
  /\ hpc = "returned"
  /\ ndr = NdRange(<<4, 4>>, <<2, 2>>, <<0, 0>>)
  /\ Len(icalls) = 16

C9_CeilingDivide ==
  (result # <<>> /\ \A d \in 1..Len(dividend) : dividend[d] > 0 /\ divisor[d] > 0) =>
    /\ Len(result) = Len(dividend)
    /\ \A d \in 1..Len(dividend) : result[d] = Ceiling(dividend[d], divisor[d])

(***************************************************************************)
(* Properties of buffers and accessors.                                    *)
(***************************************************************************)
\* one of the two buffers was constructed as a copy of the other
CopyOf(m, n) == bufs[m].from = n \/ bufs[n].from = m

\* C10 as stated: after a buffer is copied, the original and the copy share
\* their storage: the value written to an element through a view of one of
\* them is the value read from that element through a view of the other.
C10_CopyShares ==
  \A k \in 1..Len(lastWrite) :
    \A v \in 1..Len(views) :
      CopyOf(views[lastWrite[k].view].buf, views[v].buf) =>
        ReadElement(v, lastWrite[k].id) = lastWrite[k].val

\* the access modes that permit writing
WritingModes == Modes \ {"read"}

\* the buffer was constructed over an array of const elements of the caller
ReadOnlyBorrowed(n) == bufs[n].ctor = "const_host" /\ bufs[n].ReadOnly

\* C11 as stated: a buffer over read-only borrowed storage never has a view
\* with a writing access mode, and no element is ever written through any of
\* its views, so the borrowed storage is not changed through the buffer.
C11_ReadOnlyRejected ==
  /\ \A v \in 1..Len(views) :
       ReadOnlyBorrowed(views[v].buf) => views[v].mode \notin WritingModes
  /\ \A k \in 1..Len(lastWrite) : ~ReadOnlyBorrowed(views[lastWrite[k].view].buf)

\* C12 as stated: ReadOnly is false for a buffer constructed from a range or
\* over a writable array of the caller, true for one constructed over
\* read-only borrowed storage, and for a copy it is what it is for the buffer
\* copied; the flag of a buffer never changes once the buffer is constructed.
C12_ReadOnlyFixed ==
  /\ [](\A n \in 1..Len(bufs) :
         /\ bufs[n].ctor \in {"range", "host"} => ~bufs[n].ReadOnly
         /\ bufs[n].ctor = "const_host" => bufs[n].ReadOnly
         /\ bufs[n].ctor = "copy" => bufs[n].ReadOnly = bufs[bufs[n].from].ReadOnly)
  /\ [][\A n \in 1..Len(bufs) : bufs'[n].ReadOnly = bufs[n].ReadOnly]_vars

\* C17 as stated: a buffer constructed from [first, last) has one dimension
\* and last - first elements in storage of its own, which hold the elements
\* of the source range until they are written, and its ReadOnly is false.
C17_FromRange ==
  \A n \in 1..Len(bufs) :
    bufs[n].ctor = "iterators" =>
      LET b == bufs[n]
      IN  /\ Len(b.Access.extent) = 1
          /\ Product(b.Access.extent) = b.last - b.first
          /\ Len(heap[b.Allocation]) = b.last - b.first
          /\ b.Access.base = b.Allocation /\ b.Allocation # HostBlock
          /\ lastWrite = <<>> =>
               Contents(heap, b.Access) = SourceRange(heap, b.first, b.last)
          /\ ~b.ReadOnly

(***************************************************************************)
(* Properties of element access.                                           *)
(***************************************************************************)
\* the place of the element id of an array in row-major order: one more than
\* the number of the ids of the array that come before it
Position(extent, id) == Cardinality({ c \in Box(extent) : LexLess(c, id) }) + 1

\* the elements of the storage whose value differs between two heaps
Changed(h1, h2) ==
  { p \in UNION { {b} \X DOMAIN h1[b] : b \in DOMAIN h1 } :
      h2[p[1]][p[2]] # h1[p[1]][p[2]] }

\* C13: an element access whose subscript has a component that is negative or
\* not smaller than the extent fails an assertion and leaves every element and
\* every completed access as it was; an access that completes has its
\* subscript inside the extent, a write changes no element but the one at the
\* row-major place of the subscript and leaves the written value there, and a
\* read yields the element at that place.
C13_BoundsChecked ==
  /\ [](\A k \in 1..Len(lastWrite) :
         LET a == views[lastWrite[k].view].Array
         IN  /\ lastWrite[k].id \in Box(a.extent)
             /\ heap[a.base][Position(a.extent, lastWrite[k].id)] = lastWrite[k].val)
  /\ [](\A k \in 1..Len(lastRead) :
         lastRead[k].id \in Box(views[lastRead[k].view].Array.extent))
  /\ [][(fault' /\ ~fault) =>
         heap' = heap /\ lastWrite' = lastWrite /\ lastRead' = lastRead]_vars
  /\ [][Changed(heap, heap') # {} =>
         LET a == views'[lastWrite'[1].view].Array
         IN  Changed(heap, heap') = {<<a.base, Position(a.extent, lastWrite'[1].id)>>}]_vars
  /\ [][lastRead' # lastRead =>
         LET a == views[lastRead'[1].view].Array
         IN  /\ heap' = heap
             /\ lastRead'[1].val = heap[a.base][Position(a.extent, lastRead'[1].id)]]_vars

C13_Witness ==
  /\ fault
  /\ Len(views) = 1 /\ views[1].Array.extent = <<1, 2>>
  /\ lastWrite # <<>> /\ lastWrite[1].id = <<0, 1>> /\ lastWrite[1].val = 1
  /\ lastRead # <<>> /\ lastRead[1].id = <<0, 1>> /\ lastRead[1].val = 1

\* C16: a buffer constructed from a range owns storage of exactly
\* product(range) elements, its ReadOnly is false, and until an element is
\* written every element is zero and every read through a view yields zero.
C16_OwnedZero ==
  \A n \in 1..Len(bufs) :
    bufs[n].ctor = "range" =>
      LET b == bufs[n]
      IN  /\ ~b.ReadOnly
          /\ b.Access.base = b.Allocation /\ b.Allocation # HostBlock
          /\ Len(heap[b.Allocation]) = Product(b.Access.extent)
          /\ lastWrite = <<>> =>
               /\ \A k \in 1..Len(heap[b.Allocation]) : heap[b.Allocation][k] = 0
               /\ \A k \in 1..Len(lastRead) :
                    views[lastRead[k].view].buf = n => lastRead[k].val = 0

C16_Witness ==
  /\ Len(bufs) = 1 /\ bufs[1].ctor = "range" /\ bufs[1].Access.extent = <<2, 1>>
  /\ lastWrite = <<>>
  /\ lastRead # <<>> /\ lastRead[1].id = <<1, 0>> /\ lastRead[1].val = 0

(***************************************************************************)
(* Properties of a flat dispatch that writes a buffer.                     *)
(***************************************************************************)
\* C14: when the flat dispatch over the range {n} of the kernel that stores
\* its index into element index of a buffer of n elements returns, the buffer
\* holds 0, 1, ..., n-1, whichever variant ran, however the iterations were
\* given to the workers and however their steps interleaved; for n = 4 it
\* holds 0, 1, 2, 3.
C14_IndexBuffer ==
  pc = "returned" =>
    /\ ~fault
    /\ Contents(heap, bufs[1].Access) = [k \in 1..r[1] |-> k - 1]
    /\ r = <<4>> => heap[bufs[1].Allocation] = <<0, 1, 2, 3>>

C14_Witness ==
  /\ pc = "returned" /\ variant = "omp"
  /\ r = <<4>>
  /\ \A w \in Workers : calls[w] # <<>>
  /\ heap[bufs[1].Allocation] = <<0, 1, 2, 3>>

(***************************************************************************)
(* Properties of the flat dispatch with an offset.                         *)
(***************************************************************************)
\* the index space  prod_d [o[d], o[d] + v[d])
OffsetBox(v, o) ==
  { c \in [1..Len(v) -> (-MaxOffset)..(MaxOf(v) + MaxOffset)] :
      \A d \in 1..Len(v) : o[d] <= c[d] /\ c[d] < o[d] + v[d] }

\* the places (worker, position) of the invocations of f
Invocations == UNION { {w} \X (1..Len(calls[w])) : w \in Workers }
ItemAt(p) == calls[p[1]][p[2]]

\* C15: the dispatch with an offset passes to the callback items whose
\* global ids are pairwise distinct and lie in the product of
\* [offset[d], offset[d] + extent[d]), whose get_global_range() is the extent
\* and whose get_offset() is the offset given to the launcher, and when it
\* returns every index of that product has been passed exactly once.
C15_OffsetDispatch ==
  /\ \A p \in Invocations :
       /\ ItemGetGlobalId(ItemAt(p)) \in OffsetBox(r, offs)
       /\ ItemGetGlobalRange(ItemAt(p)) = r
       /\ ItemGetOffset(ItemAt(p)) = offs
  /\ \A p, q \in Invocations :
       p # q => ItemGetGlobalId(ItemAt(p)) # ItemGetGlobalId(ItemAt(q))
  /\ pc = "returned" =>
       /\ { ItemGetGlobalId(ItemAt(p)) : p \in Invocations } = OffsetBox(r, offs)
       /\ Cardinality(Invocations) = Product(r)

C15_Witness ==
  /\ pc = "returned" /\ variant = "omp"
  /\ r = <<2, 2>> /\ offs = <<1, -1>>
  /\ \A w \in Workers : calls[w] # <<>>
  /\ \E p \in Invocations : ItemGetGlobalId(ItemAt(p)) = <<2, 0>>

(***************************************************************************)
(* Properties of the constructors of RangeImpl.                            *)
(***************************************************************************)
\* C18 as stated: every RangeImpl<R> constructed holds exactly R components,
\* a default-constructed one holds R zeros, no construction from a list of
\* another length than R completes, and the result of an elementwise
\* operator has R components.
C18_RankComponents ==
  /\ \A k \in 1..Len(coords) :
       /\ Len(coords[k].v) = dims
       /\ coords[k].ctor = "default" => coords[k].v = [d \in 1..dims |-> 0]
  /\ result # <<>> => Len(result) = dims

(***************************************************************************)
(* Properties of a flat dispatch whose kernel throws.                      *)
(***************************************************************************)
InFlight(w) == it[w].st \in {"ompfor", "loop", "call"}

\* C19 as stated: once the callback has failed on a worker, that worker
\* invokes the callback no more; the dispatch call then ends with the failure
\* only (it neither returns normally nor ends the program), and the failure
\* stops no other worker: a worker is in the middle of its traversal only
\* while the dispatch is running.
C19_FailurePropagates ==
  /\ [][\A w \in Workers : it[w].st = "thrown" => calls'[w] = calls[w]]_vars
  /\ []((\E w \in Workers : it[w].st = "thrown") => pc \in {"running", "failed"})
  /\ [](\A w \in Workers : InFlight(w) => pc = "running")

(***************************************************************************)
(* Properties of the lifetime of buffer storage.                           *)
(***************************************************************************)
\* the buffer a chain of copies started from
RECURSIVE Origin(_)
Origin(n) == IF bufs[n].from = 0 THEN n ELSE Origin(bufs[n].from)

\* the handles that are copies, directly or not, of the same buffer
Sharing(m, n) == Origin(m) = Origin(n)
Released == { freed[k] : k \in 1..Len(freed) }

\* C20 as stated: the storage a buffer allocated is released at most once;
\* no existing handle refers to released storage; and no view refers to
\* released storage while a handle that shares the storage of its buffer (the
\* buffer, a copy of it or what it was copied from) still exists.
C20_SharedLifetime ==
  /\ \A j, k \in 1..Len(freed) : j # k => freed[j] # freed[k]
  /\ \A n \in (1..Len(bufs)) \ gone : bufs[n].Access.base \notin Released
  /\ \A v \in 1..Len(views) :
       views[v].Array.base \in Released =>
         \A n \in 1..Len(bufs) : Sharing(views[v].buf, n) => n \in gone

(***************************************************************************)
(* Properties of nd_item::get_group_id.                                    *)
(***************************************************************************)
\* C21 as stated: with a zero offset, get_group_id() of every work-item the
\* item pass of a group produces is the id of that group.
C21_GroupIdOfItem ==
  ZeroOffset(ndr) =>
    \A k \in 1..Len(icalls) :
      GetGroupId(icalls[k].item) = {gcalls[icalls[k].pass]}

(***************************************************************************)
(* Properties of the index of a worker.                                    *)
(***************************************************************************)
\* the loop counters of a worker, outermost first: the counter of the omp for
\* loop, if the worker runs one, then the _sycl_index of every running loop
Counters(i) ==
  [d \in 1..Len(i.r) |->
     IF d < i.base THEN i.next - 1 ELSE i.sycl_index[d - i.base + 1]]

\* C22: in the OpenMP variant, while the team runs, a step that changes the
\* index of one worker changes nothing of any other worker; whenever a
\* worker is about to invoke the callback its index equals its loop counters
\* in every dimension, and that index is what the callback is invoked with.
C22_PrivateIndex ==
  /\ [][(variant = "omp" /\ pc = "running") =>
         \A w \in Workers :
           it'[w].index # it[w].index =>
             \A v \in Workers \ {w} : it'[v] = it[v] /\ calls'[v] = calls[v]]_vars
  /\ []((variant = "omp" /\ pc = "running") =>
         \A w \in Workers : it[w].st = "call" => it[w].index = Counters(it[w]))
  /\ [][(variant = "omp" /\ pc = "running") =>
         \A w \in Workers :
           calls'[w] # calls[w] =>
             calls'[w] = Append(calls[w], Counters(it[w]))]_vars

C22_Witness ==
  /\ variant = "omp" /\ pc = "running"
  /\ Len(r) = 3
  /\ it[1].st = "call" /\ it[1].index = <<0, 1, 1>>
  /\ it[2].st = "call" /\ it[2].index = <<1, 0, 1>>
  /\ calls[1] # <<>> /\ calls[2] # <<>>

(***************************************************************************)
(* Properties of several accessors of one buffer.                          *)
(***************************************************************************)
\* the accessors of the buffer n
ViewsOf(n) == { v \in 1..Len(views) : views[v].buf = n }

\* the last element write went through an accessor
ViewWrite(lw) == lw # <<>> /\ lw[1].view # 0

\* C23: after a write of val to the element id through an accessor, every
\* accessor of the same buffer reads val at id, whatever the modes and
\* targets; the step that creates an accessor leaves the buffers (extent,
\* read_only flag) and the elements of every buffer as they were.
C23_ViewsAlias ==
  /\ [](ViewWrite(lastWrite) =>
          \A u \in ViewsOf(views[lastWrite[1].view].buf) :
            ReadElement(u, lastWrite[1].id) = lastWrite[1].val)
  /\ [][Len(views') > Len(views) =>
          /\ bufs' = bufs
          /\ \A n \in 1..Len(bufs) :
               Contents(heap', bufs[n].Access) = Contents(heap, bufs[n].Access)]_vars

C23_Witness ==
  /\ Len(views) >= 2
  /\ views[1].mode # views[2].mode
  /\ ViewWrite(lastWrite) /\ lastWrite[1].view = 1 /\ lastWrite[1].val = 1
  /\ ReadElement(2, lastWrite[1].id) = 1

\* C24: mode and target are metadata only.  Two accessors of the same buffer
\* read the same value at every id and a write of any value at any id
\* through either gives the same storage, whatever their modes and targets;
\* and every write through an accessor, of mode read as of mode read_write,
\* stores the value in the element id of the buffer.
C24_ModeIsMetadata ==
  /\ [](\A u, v \in 1..Len(views) :
          views[u].buf = views[v].buf =>
            \A id \in Box(views[u].Array.extent) :
              /\ ReadElement(u, id) = ReadElement(v, id)
              /\ \A val \in Values :
                   Store(heap, views[u].Array, id, val) =
                     Store(heap, views[v].Array, id, val))
  /\ [][(lastWrite' # lastWrite /\ ViewWrite(lastWrite')) =>
          heap' = Store(heap, bufs[views[lastWrite'[1].view].buf].Access,
                        lastWrite'[1].id, lastWrite'[1].val)]_vars
  /\ [](ViewWrite(lastWrite) =>
          Element(heap, bufs[views[lastWrite[1].view].buf].Access,
                  lastWrite[1].id) = lastWrite[1].val)

C24_Witness ==
  /\ Len(views) >= 2
  /\ views[1].mode = "read" /\ views[1].target = "host_buffer"
  /\ views[2].mode = "read_write"
  /\ ViewWrite(lastWrite) /\ lastWrite[1].view = 1 /\ lastWrite[1].val = 1
  /\ Element(heap, bufs[1].Access, lastWrite[1].id) = 1

\* the buffers that wrap the caller's array
Borrowed == { n \in 1..Len(bufs) : bufs[n].ctor \in {"host", "const_host"} }

\* C25: a buffer constructed from a host pointer has no allocation and its
\* construction adds no storage; an accessor of it reads at every id the
\* element of the caller's array at the row-major position of id, also after
\* the caller has written to the array; a write through an accessor of a
\* buffer constructed from a pointer to non-const changes the caller's
\* element at that position and nothing else.
C25_BorrowedAliases ==
  /\ [](\A n \in Borrowed :
          /\ bufs[n].Allocation = 0
          /\ \A v \in ViewsOf(n) : \A id \in Box(views[v].Array.extent) :
               ReadElement(v, id) = heap[HostBlock][Position(views[v].Array.extent, id)])
  /\ [][(Len(bufs') > Len(bufs) /\ Len(bufs') \in Borrowed') => heap' = heap]_vars
  /\ [][(lastWrite' # lastWrite /\ lastWrite' # <<>> /\ lastWrite'[1].view = 0) =>
          \A n \in Borrowed : \A v \in ViewsOf(n) :
            \A id \in Box(views[v].Array.extent) :
              lastWrite'[1].id = <<Position(views[v].Array.extent, id) - 1>> =>
                Element(heap', views[v].Array, id) = lastWrite'[1].val]_vars
  /\ [][(lastWrite' # lastWrite /\ ViewWrite(lastWrite')
           /\ bufs[views[lastWrite'[1].view].buf].ctor = "host") =>
          heap' = [heap EXCEPT
                     ![HostBlock][Position(views[lastWrite'[1].view].Array.extent,
                                           lastWrite'[1].id)] = lastWrite'[1].val]]_vars

\* the caller has written 1 to its second element and an accessor of a
\* two-dimensional buffer that wraps the array reads it
C25_Witness ==
  /\ Borrowed = {1} /\ bufs[1].ctor = "host"
  /\ bufs[1].Access.extent = <<2, 1>>
  /\ Len(views) >= 1
  /\ lastWrite # <<>> /\ lastWrite[1].view = 0
  /\ lastWrite[1].id = <<1>> /\ lastWrite[1].val = 1
  /\ ReadElement(1, <<1, 0>>) = 1

(***************************************************************************)
(* Properties of the copy constructor.                                     *)
(***************************************************************************)
\* the step constructs a buffer with the copy constructor
Copying == Len(bufs') = Len(bufs) + 1 /\ bufs'[Len(bufs')].ctor = "copy"

\* C26: the step that copies a buffer gives the copy the extent and the
\* elements the source has at that time and leaves every existing buffer
\* (extent, read_only flag, elements) as it was; whatever constructor made
\* the source, the copy has an allocation of its own that is the storage of
\* no other buffer and not the caller's array; and a later write through an
\* accessor changes the elements of no buffer that has other storage.
C26_CopySnapshot ==
  /\ [][Copying =>
          LET c == bufs'[Len(bufs')]
              b == bufs[c.from]
          IN  /\ c.Access.extent = b.Access.extent
              /\ Contents(heap', c.Access) = Contents(heap, b.Access)
              /\ \A n \in 1..Len(bufs) :
                   /\ bufs'[n] = bufs[n]
                   /\ Contents(heap', bufs[n].Access) = Contents(heap, bufs[n].Access)]_vars
  /\ [](\A n \in 1..Len(bufs) :
          bufs[n].ctor = "copy" =>
            /\ bufs[n].Allocation # 0
            /\ bufs[n].Access.base = bufs[n].Allocation
            /\ bufs[n].Access.base # HostBlock
            /\ \A m \in (1..Len(bufs)) \ {n} :
                 bufs[m].Access.base # bufs[n].Access.base)
  /\ [][Len(lastWrite') > Len(lastWrite) =>
          \A n \in (1..Len(bufs)) \ {views[lastWrite'[Len(lastWrite')].view].buf} :
            Contents(heap', bufs[n].Access) = Contents(heap, bufs[n].Access)]_vars

\* a copy of a buffer that wraps the caller's array read-only, and a write
\* to the source that the copy does not see
C26_Witness ==
  /\ Len(bufs) >= 2
  /\ bufs[1].ctor = "const_host" /\ bufs[2].ctor = "copy" /\ bufs[2].from = 1
  /\ bufs[1].Access.extent = <<2>>
  /\ Len(views) = 1 /\ views[1].buf = 1
  /\ lastWrite # <<>>
  /\ Contents(heap, bufs[1].Access) = <<1, 1>>
  /\ Contents(heap, bufs[2].Access) = <<1, 0>>

(***************************************************************************)
(* Properties of the dispatch of a callback that overwrites its index.     *)
(***************************************************************************)
\* C27: with a callback that overwrites components of the index it is given,
\* every iteration of a loop still stores the counter of the loop into its
\* component of the index; the k-th invocation sees in the innermost
\* component the value (k - 1) modulo the innermost extent, which is the
\* counter of the innermost loop; the dispatch never makes more than
\* product(extent) invocations, has made exactly that many when it returns,
\* and it returns.
C27_CountersApart ==
  /\ [][\A w \in Workers :
          (it[w].st = "loop" /\ it'[w] # it[w] /\ LoopCond(it[w])) =>
            it'[w].index[Dim(it[w])] = Top(it[w])]_vars
  /\ [](\A w \in Workers :
          /\ it[w].st = "call" => it[w].index[Len(r)] = Top(it[w])
          /\ \A k \in 1..Len(calls[w]) :
               calls[w][k][Len(r)] = (k - 1) % r[Len(r)]
          /\ Len(calls[w]) <= Product(r))
  /\ [](pc = "returned" => Len(calls[1]) = Product(r))
  /\ <>(pc = "returned")

\* the dispatch has returned and an invocation saw an outer component the
\* callback had written
C27_Witness ==
  /\ pc = "returned"
  /\ r = <<2, 2>> /\ scribble = <<2, 0>>
  /\ calls[1] = <<<<0, 0>>, <<2, 1>>, <<1, 0>>, <<2, 1>>>>

====
